---- MODULE Spec2Model ----
(***************************************************************************)
(* Model of native/yolofastnms/src/lib.rs: run_with_binary and the        *)
(* functions it calls (binary_to_matrix, transpose_matrix,                *)
(* matrix_to_bboxes, bbox_from_row, the confidence filter, nms, calc_iou, *)
(* sorted_boxes_filtered_by_class, get_classes).                          *)
(*                                                                         *)
(* f32 values that enter through the buffer or the arguments are held in  *)
(* units of one half: the integer n stands for the float n/2.  F32_MIN is *)
(* the lowest finite float, NEG_INFINITY lies below it and NAN compares   *)
(* false with everything.  The f32 returned by calc_iou is held as the    *)
(* exact ratio <<intersection, union>>.                                   *)
(***************************************************************************)
EXTENDS Integers, Sequences, FiniteSets, TLC

\* ------------------------------------------------------------------ bounds
MaxDim == 6
MaxWords == 10
MaxBoxes == 3
MaxFew == 2
MaxScores == 3
MaxSide == 3

\* --------------------------------------------------------------- f32, i32
F32SIZE == 4
F32_MIN == -1000
NEG_INFINITY == F32_MIN - 1
NAN == 2 - F32_MIN
I32_MIN == -2147483647 - 1

IsNaN(x) == x = NAN

\* a > b and a >= b on f32 (false when either side is NaN)
FGt(a, b) == ~IsNaN(a) /\ ~IsNaN(b) /\ a > b
FGe(a, b) == ~IsNaN(a) /\ ~IsNaN(b) /\ a >= b

\* f32::round on a finite value in halves: nearest integer, half away from zero
Round(x) == IF x >= 0 THEN (x + 1) \div 2 ELSE -((1 - x) \div 2)

\* `.round() as i32`: the cast saturates and sends NaN to 0
RoundAsI32(x) ==
    IF IsNaN(x) THEN 0
    ELSE IF x <= F32_MIN THEN I32_MIN
    ELSE Round(x)

\* `as f32` of a small integer, back in halves
AsF32(n) == 2 * n

\* Rust's integer division truncates toward zero
Div(a, b) == IF a >= 0 THEN a \div b ELSE -((-a) \div b)

IMax(a, b) == IF a >= b THEN a ELSE b
IMin(a, b) == IF a <= b THEN a ELSE b

\* ----------------------------------------------------------------- bytes
\* the k-th byte of the native representation of the float f
F32Bytes(f) == [k \in 1..F32SIZE |-> <<f, k>>]

\* f32::from_ne_bytes of a 4-byte chunk; bytes of different floats assemble
\* to some other bit pattern
FromNeBytes(bytes) ==
    IF \A k \in 1..F32SIZE : bytes[k] = <<bytes[1][1], k>>
    THEN bytes[1][1]
    ELSE NAN

RECURSIVE ToBytes(_)
ToBytes(words) ==
    IF words = <<>> THEN <<>>
    ELSE F32Bytes(Head(words)) \o ToBytes(Tail(words))

\* slice::chunks(n): consecutive chunks of n elements, the last one shorter
\* when n does not divide the length
RECURSIVE Chunks(_, _)
Chunks(s, n) ==
    IF Len(s) = 0 THEN <<>>
    ELSE IF Len(s) <= n THEN <<s>>
    ELSE <<SubSeq(s, 1, n)>> \o Chunks(SubSeq(s, n + 1, Len(s)), n)

\* ------------------------------------------------------- binary_to_matrix
RowSize(columns) == columns * F32SIZE

\* faulty variant: the total-size assertion is missing
PanicsWithoutTotalSize(binary, rows, columns) ==
    \/ Len(binary) < RowSize(columns)
    \/ RowSize(columns) = 0
    \/ Len(binary) % RowSize(columns) # 0

BinaryToMatrixPanics(binary, rows, columns) ==
    \/ Len(binary) # rows * RowSize(columns)
    \/ Len(binary) < RowSize(columns)
    \/ RowSize(columns) = 0
    \/ Len(binary) % RowSize(columns) # 0

binary_to_matrix(binary, rows, columns) ==
    LET rowChunks == Chunks(binary, RowSize(columns))
    IN  [r \in 1..Len(rowChunks) |->
            LET words == Chunks(rowChunks[r], F32SIZE)
            IN  [c \in 1..Len(words) |-> FromNeBytes(words[c])]]

\* ------------------------------------------------------- transpose_matrix
\* faulty variant: the rows are read from the last one back
transpose_matrix_flipped(matrix) ==
    LET rows == Len(matrix)
        cols == IF rows > 0 THEN Len(matrix[1]) ELSE 0
    IN  [j \in 1..cols |-> [i \in 1..rows |-> matrix[rows + 1 - i][j]]]

transpose_matrix(matrix) ==
    LET rows == Len(matrix)
        cols == IF rows > 0 THEN Len(matrix[1]) ELSE 0
    IN  [j \in 1..cols |-> [i \in 1..rows |-> matrix[i][j]]]

\* ---------------------------------------------------------- bbox_from_row
\* the fold over row[4..]: acc is (max_prob, max_class), i the zero-based index
RECURSIVE FoldScores(_, _, _)
FoldScores(scores, i, acc) ==
    IF i >= Len(scores) THEN acc
    ELSE FoldScores(scores, i + 1,
                    IF FGt(scores[i + 1], acc[1]) THEN <<scores[i + 1], i>> ELSE acc)

BBoxFromRowPanics(row) == Len(row) < 4

bbox_from_row(row) ==
    LET best == FoldScores(SubSeq(row, 5, Len(row)), 0, <<F32_MIN, 0>>)
    IN  [prob |-> best[1], class |-> best[2],
         cx |-> RoundAsI32(row[1]), cy |-> RoundAsI32(row[2]),
         w |-> RoundAsI32(row[3]), h |-> RoundAsI32(row[4])]

matrix_to_bboxes(matrix) == [r \in 1..Len(matrix) |-> bbox_from_row(matrix[r])]

\* ------------------------------------------------------ confidence filter
\* faulty variant: the filter keeps prob > prob_threshold only
PassesStrictly(b, threshold) == FGt(b.prob, threshold)

PassesFilter(b, threshold) == FGe(b.prob, threshold)

RECURSIVE FilterBBoxes(_, _)
FilterBBoxes(boxes, threshold) ==
    IF boxes = <<>> THEN <<>>
    ELSE IF PassesFilter(Head(boxes), threshold)
         THEN <<Head(boxes)>> \o FilterBBoxes(Tail(boxes), threshold)
         ELSE FilterBBoxes(Tail(boxes), threshold)

\* --------------------------------------------------------------- calc_iou
\* faulty variant: the intersection is subtracted from each area
calc_iou_subtract_twice(a, b) ==
    LET x1 == IMax(a.cx - Div(a.w, 2), b.cx - Div(b.w, 2))
        y1 == IMax(a.cy - Div(a.h, 2), b.cy - Div(b.h, 2))
        x2 == IMin(a.cx + Div(a.w, 2), b.cx + Div(b.w, 2))
        y2 == IMin(a.cy + Div(a.h, 2), b.cy + Div(b.h, 2))
        intersection_area == IMax(x2 - x1, 0) * IMax(y2 - y1, 0)
        union_area == a.w * a.h + b.w * b.h - 2 * intersection_area
    IN  IF union_area = 0 THEN <<0, 1>>
        ELSE IF union_area > 0 THEN <<intersection_area, union_area>>
        ELSE <<-intersection_area, -union_area>>

\* the returned f32 as the exact ratio <<numerator, denominator>>, denominator > 0
calc_iou(a, b) ==
    LET x1 == IMax(a.cx - Div(a.w, 2), b.cx - Div(b.w, 2))
        y1 == IMax(a.cy - Div(a.h, 2), b.cy - Div(b.h, 2))
        x2 == IMin(a.cx + Div(a.w, 2), b.cx + Div(b.w, 2))
        y2 == IMin(a.cy + Div(a.h, 2), b.cy + Div(b.h, 2))
        intersection_area == IMax(x2 - x1, 0) * IMax(y2 - y1, 0)
        a_area == a.w * a.h
        b_area == b.w * b.h
        union_area == a_area + b_area - intersection_area
    IN  IF union_area = 0 THEN <<0, 1>>
        ELSE IF union_area > 0 THEN <<intersection_area, union_area>>
        ELSE <<-intersection_area, -union_area>>

\* f32 order on two ratios with positive denominators
RatioLe(p, q) == p[1] * q[2] <= q[1] * p[2]

\* f32::max of two ratios
RatioMax(p, q) == IF RatioLe(p, q) THEN q ELSE p

\* faulty variant: survival needs max_iou < iou_threshold
RatioLtF32(p, t) == ~IsNaN(t) /\ 2 * p[1] < t * p[2]

\* ratio <= threshold, the threshold in halves
RatioLeF32(p, t) == ~IsNaN(t) /\ 2 * p[1] <= t * p[2]

\* faulty variant: only the first kept box is compared
FirstIou(bbox, kept, max_iou) ==
    IF kept = <<>> THEN max_iou
    ELSE RatioMax(calc_iou(bbox, Head(kept)), max_iou)

\* the inner loop of nms over the kept boxes, starting from max_iou = 0.0
RECURSIVE MaxIou(_, _, _)
MaxIou(bbox, kept, max_iou) ==
    IF kept = <<>> THEN max_iou
    ELSE MaxIou(bbox, Tail(kept), RatioMax(calc_iou(bbox, Head(kept)), max_iou))

\* ------------------------------------------ sorted_boxes_filtered_by_class
RECURSIVE FilterByClass(_, _)
FilterByClass(boxes, class) ==
    IF boxes = <<>> THEN <<>>
    ELSE IF Head(boxes).class = class
         THEN <<Head(boxes)>> \o FilterByClass(Tail(boxes), class)
         ELSE FilterByClass(Tail(boxes), class)

\* insert b after every element that does not compare Greater than it under
\* |a, b| b.prob.partial_cmp(&a.prob): a stable descending insertion (prob is
\* never NaN here: bbox_from_row never selects a NaN score)
RECURSIVE InsertDesc(_, _)
InsertDesc(sorted, b) ==
    IF sorted = <<>> THEN <<b>>
    ELSE IF Head(sorted).prob >= b.prob
         THEN <<Head(sorted)>> \o InsertDesc(Tail(sorted), b)
         ELSE <<b>> \o sorted

RECURSIVE SortDesc(_, _)
SortDesc(boxes, sorted) ==
    IF boxes = <<>> THEN sorted
    ELSE SortDesc(Tail(boxes), InsertDesc(sorted, Head(boxes)))

\* faulty variant: the class filter is lost
sorted_boxes_of_all_classes(boxes, class) == SortDesc(boxes, <<>>)

sorted_boxes_filtered_by_class(boxes, class) ==
    SortDesc(FilterByClass(boxes, class), <<>>)

\* ------------------------------------------------------------ get_classes
get_classes(boxes) == {boxes[i].class : i \in 1..Len(boxes)}

\* ------------------------------------------------------------------ state
VARIABLES
    binary,            \* the caller's buffer, a sequence of bytes
    prob_threshold,    \* f32 argument
    iou_threshold,     \* f32 argument
    rows,              \* usize argument
    columns,           \* usize argument
    transpose,         \* bool argument
    pc,                \* position in run_with_binary / nms
    matrix,            \* the decoded (then possibly transposed) matrix
    once,              \* transpose_matrix(&matrix), for the involution check
    twice,             \* transpose_matrix(&once)
    bboxes,            \* matrix_to_bboxes(&matrix)
    filtered_bboxes,   \* the boxes handed to nms
    classes,           \* classes the `for class in get_classes(..)` loop has yet to yield
    class_boxes,       \* sorted boxes of the class being walked
    idx,               \* position of the walk in class_boxes
    class_kept_boxes,  \* nms: kept boxes of the current class
    final_boxes,       \* nms: the list being returned
    result             \* the encoded Vec<Vec<f32>>

vars == <<binary, prob_threshold, iou_threshold, rows, columns, transpose, pc,
          matrix, once, twice, bboxes, filtered_bboxes, classes, class_boxes, idx,
          class_kept_boxes, final_boxes, result>>

args == <<binary, prob_threshold, iou_threshold, rows, columns, transpose>>
nmsLocals == <<classes, class_boxes, idx, class_kept_boxes, final_boxes>>

\* ----------------------------------------------------------------- inputs
\* floats found in the buffer of a pipeline run: 0.5 and 2.0
Cells == {1, 4}
\* byte-length differences between the buffer and the declared shape
LenDeltas == {-F32SIZE, -1, 0, 1, F32SIZE}
ProbThresholds == {F32_MIN, 4, 5}
PipelineIouThresholds == {0, 1}

\* locals not yet assigned
Locals0 ==
    /\ once = <<>>
    /\ twice = <<>>
    /\ bboxes = <<>>
    /\ classes = {}
    /\ class_boxes = <<>>
    /\ idx = 0
    /\ class_kept_boxes = <<>>
    /\ final_boxes = <<>>
    /\ result = <<>>

\* a call of run_with_binary
Init ==
    /\ rows \in 0..MaxDim
    /\ columns \in 0..MaxDim
    /\ rows * columns <= MaxWords
    /\ transpose \in BOOLEAN
    /\ prob_threshold \in ProbThresholds
    /\ iou_threshold \in PipelineIouThresholds
    /\ \E d \in LenDeltas :
          LET nbytes == rows * columns * F32SIZE + d
              nwords == (nbytes + F32SIZE - 1) \div F32SIZE
          IN  /\ nbytes >= 0
              /\ \E words \in [1..nwords -> Cells] :
                    binary = SubSeq(ToBytes(words), 1, nbytes)
    /\ pc = "binary_to_matrix"
    /\ matrix = <<>>
    /\ filtered_bboxes = <<>>
    /\ Locals0

\* ------------------------------------------------------- run_with_binary
Decode ==
    /\ pc = "binary_to_matrix"
    /\ IF BinaryToMatrixPanics(binary, rows, columns)
       THEN /\ pc' = "panic_binary_to_matrix"
            /\ UNCHANGED matrix
       ELSE /\ matrix' = binary_to_matrix(binary, rows, columns)
            /\ pc' = "transpose"
    /\ UNCHANGED <<args, once, twice, bboxes, filtered_bboxes, nmsLocals, result>>

Transpose ==
    /\ pc = "transpose"
    /\ transpose
    /\ matrix' = transpose_matrix(matrix)
    /\ pc' = "matrix_to_bboxes"
    /\ UNCHANGED <<args, once, twice, bboxes, filtered_bboxes, nmsLocals, result>>

NoTranspose ==
    /\ pc = "transpose"
    /\ ~transpose
    /\ pc' = "matrix_to_bboxes"
    /\ UNCHANGED <<args, matrix, once, twice, bboxes, filtered_bboxes, nmsLocals, result>>

Extract ==
    /\ pc = "matrix_to_bboxes"
    /\ IF \E r \in 1..Len(matrix) : BBoxFromRowPanics(matrix[r])
       THEN /\ pc' = "panic_bbox_from_row"
            /\ UNCHANGED bboxes
       ELSE /\ bboxes' = matrix_to_bboxes(matrix)
            /\ pc' = "filter"
    /\ UNCHANGED <<args, matrix, once, twice, filtered_bboxes, nmsLocals, result>>

Filter ==
    /\ pc = "filter"
    /\ filtered_bboxes' = FilterBBoxes(bboxes, prob_threshold)
    /\ pc' = "nms"
    /\ UNCHANGED <<args, matrix, once, twice, bboxes, nmsLocals, result>>

\* -------------------------------------------------------------------- nms
NmsEnter ==
    /\ pc = "nms"
    /\ final_boxes' = <<>>
    /\ class_kept_boxes' = <<>>
    /\ classes' = get_classes(filtered_bboxes)
    /\ pc' = "nms_class"
    /\ UNCHANGED <<args, matrix, once, twice, bboxes, filtered_bboxes, class_boxes, idx, result>>

\* the HashSet iterator yields the remaining classes in an unspecified order
NmsNextClass ==
    /\ pc = "nms_class"
    /\ \E class \in classes :
          /\ class_boxes' = sorted_boxes_filtered_by_class(filtered_bboxes, class)
          /\ classes' = classes \ {class}
    /\ class_kept_boxes' = <<>>
    /\ idx' = 1
    /\ pc' = "nms_walk"
    /\ UNCHANGED <<args, matrix, once, twice, bboxes, filtered_bboxes, final_boxes, result>>

NmsWalk ==
    /\ pc = "nms_walk"
    /\ idx <= Len(class_boxes)
    /\ LET bbox == class_boxes[idx]
           max_iou == MaxIou(bbox, class_kept_boxes, <<0, 1>>)
       IN  class_kept_boxes' =
               IF RatioLeF32(max_iou, iou_threshold)
               THEN Append(class_kept_boxes, bbox)
               ELSE class_kept_boxes
    /\ idx' = idx + 1
    /\ UNCHANGED <<args, pc, matrix, once, twice, bboxes, filtered_bboxes, classes,
                   class_boxes, final_boxes, result>>

NmsDrain ==
    /\ pc = "nms_walk"
    /\ idx > Len(class_boxes)
    /\ final_boxes' = final_boxes \o class_kept_boxes
    /\ class_kept_boxes' = <<>>
    /\ pc' = "nms_class"
    /\ UNCHANGED <<args, matrix, once, twice, bboxes, filtered_bboxes, classes,
                   class_boxes, idx, result>>

NmsReturn ==
    /\ pc = "nms_class"
    /\ classes = {}
    /\ pc' = "encode"
    /\ UNCHANGED <<args, matrix, once, twice, bboxes, filtered_bboxes, nmsLocals, result>>

EncodeBBox(b) ==
    <<AsF32(b.cx), AsF32(b.cy), AsF32(b.w), AsF32(b.h), b.prob, AsF32(b.class)>>

Encode ==
    /\ pc = "encode"
    /\ result' = [k \in 1..Len(final_boxes) |-> EncodeBBox(final_boxes[k])]
    /\ pc' = "done"
    /\ UNCHANGED <<args, matrix, once, twice, bboxes, filtered_bboxes, nmsLocals>>

Next ==
    \/ Decode
    \/ Transpose
    \/ NoTranspose
    \/ Extract
    \/ Filter
    \/ NmsEnter
    \/ NmsNextClass
    \/ NmsWalk
    \/ NmsDrain
    \/ NmsReturn
    \/ Encode

Spec == Init /\ [][Next]_vars

\* ------------------------------------------------------------ nms alone
NmsProbs == {1, 2}
NmsClasses == {0, 1}
\* geometries: even, odd and negative widths and two heights at two centres
WideShapes ==
    {s \in [cx : {0, 1}, cy : {0}, w : {-4, 3, 4}, h : {2, 4}] : s.h = 4 \/ s.w = 4}
\* three of them, for the longer inputs
NarrowShapes ==
    {s \in WideShapes : s.h = 4 /\ <<s.cx, s.w>> \in {<<0, 4>>, <<1, 3>>, <<0, -4>>}}
BoxesOf(shapes) ==
    {[prob |-> p, class |-> c, cx |-> s.cx, cy |-> s.cy, w |-> s.w, h |-> s.h] :
        p \in NmsProbs, c \in NmsClasses, s \in shapes}
NmsBoxes == BoxesOf(WideShapes)
\* -0.5, 0.0, 0.5, 1.0
NmsIouThresholds == {-1, 0, 1, 2}

NoCall ==
    /\ binary = <<>>
    /\ rows = 0
    /\ columns = 0
    /\ transpose = FALSE
    /\ prob_threshold = 0

\* a call nms(&filtered_bboxes, iou_threshold): up to MaxBoxes boxes of the
\* narrow geometries or up to MaxFew boxes of the wide ones
InitNms ==
    /\ NoCall
    /\ iou_threshold \in NmsIouThresholds
    /\ Locals0
    /\ matrix = <<>>
    /\ \/ \E n \in 0..MaxBoxes : filtered_bboxes \in [1..n -> BoxesOf(NarrowShapes)]
       \/ \E n \in 0..MaxFew : filtered_bboxes \in [1..n -> BoxesOf(WideShapes)]
    /\ pc = "nms"

NextNms ==
    \/ NmsEnter
    \/ NmsNextClass
    \/ NmsWalk
    \/ NmsDrain
    \/ NmsReturn

SpecNms == InitNms /\ [][NextNms]_vars

\* ---------------------------------------------------- bbox_from_row alone
GeoCells == {NAN, NEG_INFINITY, -3, 3}
ScoreCells == {NEG_INFINITY, F32_MIN, NAN, 0, 1}
\* rows of n floats: a cx cell, cy = w = h = 2.0, then the scores
RowsOfLen(n) ==
    IF n < 4
    THEN {SubSeq(<<g, 4, 4, 4>>, 1, n) : g \in GeoCells}
    ELSE {<<g, 4, 4, 4>> \o scores : g \in GeoCells, scores \in [1..(n - 4) -> ScoreCells]}

\* a call matrix_to_bboxes(&matrix) on a one-row matrix
InitRow ==
    /\ NoCall
    /\ iou_threshold = 0
    /\ Locals0
    /\ filtered_bboxes = <<>>
    /\ \E n \in 0..(4 + MaxScores) : \E row \in RowsOfLen(n) : matrix = <<row>>
    /\ pc = "matrix_to_bboxes"

NextRow ==
    \/ Extract

SpecRow == InitRow /\ [][NextRow]_vars

\* ------------------------------------------------- transpose_matrix alone
TransposeOnce ==
    /\ pc = "transpose_once"
    /\ once' = transpose_matrix(matrix)
    /\ pc' = "transpose_twice"
    /\ UNCHANGED <<args, matrix, twice, bboxes, filtered_bboxes, nmsLocals, result>>

TransposeTwice ==
    /\ pc = "transpose_twice"
    /\ twice' = transpose_matrix(once)
    /\ pc' = "transposed"
    /\ UNCHANGED <<args, matrix, once, bboxes, filtered_bboxes, nmsLocals, result>>

\* the matrices binary_to_matrix returns have at least one row and one column
InitTranspose ==
    /\ NoCall
    /\ iou_threshold = 0
    /\ Locals0
    /\ filtered_bboxes = <<>>
    /\ \E r \in 1..MaxSide : \E c \in 1..MaxSide :
          matrix \in [1..r -> [1..c -> Cells]]
    /\ pc = "transpose_once"

NextTranspose ==
    \/ TransposeOnce
    \/ TransposeTwice

SpecTranspose == InitTranspose /\ [][NextTranspose]_vars

\* =================================================================== claims
Range(s) == {s[i] : i \in 1..Len(s)}
Count(s, x) == Cardinality({i \in 1..Len(s) : s[i] = x})
SameBag(s, t) == \A x \in Range(s) \cup Range(t) : Count(s, x) = Count(t, x)
SubBag(s, t) == \A x \in Range(s) : Count(s, x) <= Count(t, x)
OfClass(s, c) == SelectSeq(s, LAMBDA b : b.class = c)
SameGeometry(a, b) == a.cx = b.cx /\ a.cy = b.cy /\ a.w = b.w /\ a.h = b.h

\* greedy suppression of one sorted list on its own
RECURSIVE Greedy(_, _, _)
Greedy(sorted, kept, threshold) ==
    IF sorted = <<>> THEN kept
    ELSE Greedy(Tail(sorted),
                IF RatioLeF32(MaxIou(Head(sorted), kept, <<0, 1>>), threshold)
                THEN Append(kept, Head(sorted))
                ELSE kept,
                threshold)

\* C1: with iou_threshold >= 0, the boxes of class c in the list nms returns are
\* what the greedy walk keeps of the class-c input boxes alone, and two input
\* boxes of identical geometry that are each the only box of their class both
\* appear in the returned list.
C1_ClassIsolation ==
    (pc = "encode" /\ FGe(iou_threshold, 0)) =>
        /\ \A c \in NmsClasses :
              OfClass(final_boxes, c)
                  = Greedy(SortDesc(OfClass(filtered_bboxes, c), <<>>), <<>>, iou_threshold)
        /\ \A i, j \in 1..Len(filtered_bboxes) :
              ( /\ filtered_bboxes[i].class # filtered_bboxes[j].class
                /\ SameGeometry(filtered_bboxes[i], filtered_bboxes[j])
                /\ \A k \in 1..Len(filtered_bboxes) :
                      k \notin {i, j} =>
                          filtered_bboxes[k].class \notin
                              {filtered_bboxes[i].class, filtered_bboxes[j].class} )
              => {filtered_bboxes[i], filtered_bboxes[j]} \subseteq Range(final_boxes)

\* nms returned both of two identical-geometry boxes of different classes while
\* a third box of one of those classes was suppressed
C1_Witness ==
    /\ pc = "encode"
    /\ FGe(iou_threshold, 0)
    /\ Len(filtered_bboxes) = 3
    /\ Len(final_boxes) = 2
    /\ final_boxes[1].class # final_boxes[2].class
    /\ SameGeometry(final_boxes[1], final_boxes[2])

\* the two-box inputs of C2: same class, different prob; Hi is the box of
\* higher prob
TwoSameClass ==
    /\ Len(filtered_bboxes) = 2
    /\ filtered_bboxes[1].class = filtered_bboxes[2].class
    /\ filtered_bboxes[1].prob # filtered_bboxes[2].prob
Hi == IF filtered_bboxes[1].prob > filtered_bboxes[2].prob
      THEN filtered_bboxes[1] ELSE filtered_bboxes[2]
Lo == IF filtered_bboxes[1].prob > filtered_bboxes[2].prob
      THEN filtered_bboxes[2] ELSE filtered_bboxes[1]
PairOutcome ==
    IF RatioLeF32(calc_iou(Lo, Hi), iou_threshold)
    THEN Len(final_boxes) = 2 /\ Range(final_boxes) = {Hi, Lo}
    ELSE final_boxes = <<Hi>>

\* C2 as claimed: for two boxes of the same class and different prob, nms
\* returns only the higher-prob box when calc_iou of the pair exceeds
\* iou_threshold and both boxes when it does not, whatever the threshold.
C2_PairAnyThreshold == (pc = "encode" /\ TwoSameClass) => PairOutcome

\* C2 amended: the same for iou_threshold >= 0.
C2_PairNonNegativeThreshold ==
    (pc = "encode" /\ TwoSameClass /\ FGe(iou_threshold, 0)) => PairOutcome

\* a pair whose calc_iou equals a positive iou_threshold, both returned
C2_Witness ==
    /\ pc = "encode"
    /\ TwoSameClass
    /\ iou_threshold = 1
    /\ calc_iou(Lo, Hi)[1] * 2 = calc_iou(Lo, Hi)[2]
    /\ final_boxes = <<Hi, Lo>>

\* C3: the list nms returns is grouped by class in ascending class order, and
\* within a class the boxes are in descending prob order.
C3_AscendingClassOrder ==
    pc = "encode" =>
        \A i, j \in 1..Len(final_boxes) :
            i < j =>
                \/ final_boxes[i].class < final_boxes[j].class
                \/ /\ final_boxes[i].class = final_boxes[j].class
                   /\ final_boxes[i].prob >= final_boxes[j].prob

\* C9: calc_iou of any two input boxes is at most 1, and with
\* iou_threshold >= 1 every box the walk visits is kept and nms returns every
\* input box.
C9_IouAtMostOne ==
    /\ pc = "nms" =>
          \A i, j \in 1..Len(filtered_bboxes) :
              RatioLe(calc_iou(filtered_bboxes[i], filtered_bboxes[j]), <<1, 1>>)
    /\ FGe(iou_threshold, 2) =>
          /\ pc = "nms_walk" => Len(class_kept_boxes) = idx - 1
          /\ pc = "encode" => SameBag(final_boxes, filtered_bboxes)

\* nms returned three boxes of one class at iou_threshold = 1.0, two of them
\* identical
C9_Witness ==
    /\ pc = "encode"
    /\ iou_threshold = 2
    /\ Len(final_boxes) = 3
    /\ final_boxes[1] = final_boxes[2]
    /\ final_boxes[3].class = final_boxes[1].class
    /\ final_boxes[1].w > 0

\* every kept box so far, in order of acceptance
KeptSoFar == final_boxes \o class_kept_boxes
IsPrefix(s, t) == Len(s) <= Len(t) /\ SubSeq(t, 1, Len(s)) = s

\* C10: in every state of nms the kept boxes are a sub-multiset of the input,
\* any two kept boxes of one class have calc_iou(later, earlier) <=
\* iou_threshold, and every step only appends to the kept boxes.
C10_KeptInvariant ==
    /\ [](/\ SubBag(KeptSoFar, filtered_bboxes)
          /\ \A i, j \in 1..Len(KeptSoFar) :
                (i < j /\ KeptSoFar[i].class = KeptSoFar[j].class) =>
                    RatioLeF32(calc_iou(KeptSoFar[j], KeptSoFar[i]), iou_threshold))
    /\ [][IsPrefix(KeptSoFar, KeptSoFar')]_vars

\* two overlapping boxes of one class kept and a third of that class suppressed
C10_Witness ==
    /\ pc = "encode"
    /\ Len(filtered_bboxes) = 3
    /\ Len(final_boxes) = 2
    /\ final_boxes[1].class = final_boxes[2].class
    /\ \A k \in 1..3 : filtered_bboxes[k].class = final_boxes[1].class
    /\ calc_iou(final_boxes[2], final_boxes[1])[1] > 0

\* indices of the extracted boxes that meet the threshold, and the k-th of them
Passing == {i \in 1..Len(bboxes) : FGe(bboxes[i].prob, prob_threshold)}
KthPassing(k) == CHOOSE i \in Passing : Cardinality({j \in Passing : j <= i}) = k
Filtered == pc \in {"nms", "nms_class", "nms_walk", "encode", "done"}

ScoresOf(row) == SubSeq(row, 5, Len(row))
Comparable(scores) == {k \in 1..Len(scores) : ~IsNaN(scores[k])}

\* C5: for a row with at least one score, prob is the maximum of the scores
\* and class the lowest zero-based index at which that maximum occurs (rows
\* whose scores are all NaN have no maximum and are left out).
C5_ArgMax ==
    (pc = "filter" /\ Len(matrix[1]) > 4 /\ Comparable(ScoresOf(matrix[1])) # {}) =>
        LET scores == ScoresOf(matrix[1])
            b == bboxes[1]
        IN  /\ b.class + 1 \in Comparable(scores)
            /\ scores[b.class + 1] = b.prob
            /\ \A k \in Comparable(scores) : scores[k] <= b.prob
            /\ \A k \in Comparable(scores) : k < b.class + 1 => scores[k] < b.prob

\* C6: a call whose rows have no score (row length <= 4 at the extractor)
\* returns no result list.
C6_NoScoresNoResult ==
    pc = "done" => \A r \in 1..Len(matrix) : Len(matrix[r]) > 4

\* C7: with a buffer length other than rows * columns * 4 the call stops in
\* binary_to_matrix with no matrix and no result, and the matrix
\* binary_to_matrix returns has `rows` rows of `columns` floats that are the
\* buffer's floats in order.
C7_ShapeChecked ==
    /\ Len(binary) # rows * columns * F32SIZE =>
          /\ pc \in {"binary_to_matrix", "panic_binary_to_matrix"}
          /\ matrix = <<>>
          /\ result = <<>>
    /\ pc = "transpose" =>
          /\ Len(matrix) = rows
          /\ \A r \in 1..Len(matrix) :
                /\ Len(matrix[r]) = columns
                /\ \A c \in 1..columns :
                      F32Bytes(matrix[r][c]) =
                          SubSeq(binary, ((r - 1) * columns + c - 1) * F32SIZE + 1,
                                 ((r - 1) * columns + c) * F32SIZE)

\* a buffer holding one row more than declared is rejected
C7_Witness ==
    /\ pc = "panic_binary_to_matrix"
    /\ rows = 2
    /\ columns = 1
    /\ Len(binary) = 3 * columns * F32SIZE

\* C8: transpose_matrix(m)[j][i] = m[i][j] with the dimensions swapped, and
\* transposing twice gives m back.
C8_TransposeInvolution ==
    /\ pc \in {"transpose_twice", "transposed"} =>
          /\ Len(once) = Len(matrix[1])
          /\ \A j \in 1..Len(once) :
                /\ Len(once[j]) = Len(matrix)
                /\ \A i \in 1..Len(matrix) : once[j][i] = matrix[i][j]
    /\ pc = "transposed" => twice = matrix

\* a 2 x 3 matrix with different rows, transposed twice
C8_Witness ==
    /\ pc = "transposed"
    /\ Len(matrix) = 2
    /\ Len(matrix[1]) = 3
    /\ matrix[1] # matrix[2]
    /\ Len(once) = 3
    /\ twice = matrix

====
